---- MODULE Spec2Model ----
(***************************************************************************)
(* Model of changeset-conventional-commits: the pipeline that groups git   *)
(* commits into conventional-commit units, classifies each unit's release  *)
(* type, resolves the packages it touches, assembles changesets and        *)
(* removes the ones already persisted.                                     *)
(*                                                                         *)
(* Strings are sequences of one-character strings, so that the regular     *)
(* expressions and the string methods of the source are modelled by what   *)
(* they do on the characters.                                              *)
(***************************************************************************)
EXTENDS Integers, Sequences, FiniteSets, TLC

VARIABLES
  input,                \* what the run is given: the repository, the options and
                        \* the persisted baseline; or the arguments of the one
                        \* function a specification applies
  output,               \* the result of that one function
  pc,                   \* position of the run, or "call" / "return"
  run,                  \* number of the current invocation of the tool
  lastError,            \* the command that has just failed, "" when none has
  sinceRef,             \* getCommitsSinceRef: sinceRef
  commitsSinceBase,     \* conventionalCommitChangeset: commitsSinceBase
  commitsWithMessages,  \* conventionalCommitChangeset: commitsWithMessages
  units,                \* changelogMessagesWithAssociatedCommits
  cursor,               \* index of the element a loop is at
  filesOfUnit,          \* conventionalMessagesWithCommitsToChangesets: filesChanged
  changesets,           \* conventionalCommitChangeset: changesets
  currentChangesets,    \* conventionalCommitChangeset: currentChangesets
  newChangesets,        \* conventionalCommitChangeset: newChangesets
  written,              \* the changesets this invocation has written so far
  store                 \* the changesets persisted in the .changeset directory

runVars ==
  <<run, lastError, sinceRef, commitsSinceBase, commitsWithMessages, units, cursor,
    filesOfUnit, changesets, currentChangesets, newChangesets, written, store>>

vars == <<input, output, pc, runVars>>

Pending == "pending"

\* the state of a run that has not begun
RunIdle ==
  /\ run = 0
  /\ lastError = ""
  /\ sinceRef = <<>>
  /\ commitsSinceBase = <<>>
  /\ commitsWithMessages = <<>>
  /\ units = <<>>
  /\ cursor = 0
  /\ filesOfUnit = <<>>
  /\ changesets = <<>>
  /\ currentChangesets = <<>>
  /\ newChangesets = <<>>
  /\ written = <<>>
  /\ store = <<>>

(***************************************************************************)
(* Strings                                                                 *)
(***************************************************************************)
NL == "\n"
CR == "\r"

\* `.` of a JavaScript regular expression matches anything but a line terminator
LineTerminators == {NL, CR}

\* \w of a JavaScript regular expression, restricted to the characters in use
WordChars ==
  {"a","b","c","d","e","f","g","h","i","j","k","l","m","n","o","p","q","r","s",
   "t","u","v","w","x","y","z","A","B","C","D","E","F","G","H","I","J","K","L",
   "M","N","O","P","Q","R","S","T","U","V","W","X","Y","Z","0","1","2","3","4",
   "5","6","7","8","9","_"}

\* String.prototype.startsWith
StartsWith(s, p) ==
  /\ Len(p) <= Len(s)
  /\ \A i \in 1..Len(p) : s[i] = p[i]

\* sub occurs in s at position i (1-based)
OccursAt(s, sub, i) ==
  /\ i >= 1
  /\ i + Len(sub) - 1 <= Len(s)
  /\ \A j \in 1..Len(sub) : s[i + j - 1] = sub[j]

\* String.prototype.includes
Includes(s, sub) == \E i \in 1..(Len(s) + 1) : OccursAt(s, sub, i)

SeqRange(s, a, b) == [i \in 1..(b - a + 1) |-> s[a + i - 1]]

(***************************************************************************)
(* Commit types and release rules                                          *)
(***************************************************************************)
defaultCommitTypes ==
  << <<"f","e","a","t">>,
     <<"f","e","a","t","u","r","e">>,
     <<"f","i","x">>,
     <<"p","e","r","f">>,
     <<"r","e","v","e","r","t">>,
     <<"d","o","c","s">>,
     <<"s","t","y","l","e">>,
     <<"c","h","o","r","e">>,
     <<"r","e","f","a","c","t","o","r">>,
     <<"t","e","s","t">>,
     <<"b","u","i","l","d">>,
     <<"c","i">> >>

\* a rule without a type has type "" (falsy, like undefined)
NoType == <<>>
\* release: undefined
NoRelease == "none"

Rule(b, r, t, rel) == [breaking |-> b, revert |-> r, type |-> t, release |-> rel]
TypeRule(i, rel) == Rule(FALSE, FALSE, defaultCommitTypes[i], rel)

defaultReleaseRules ==
  << Rule(TRUE, FALSE, NoType, "major"),
     Rule(FALSE, TRUE, NoType, "patch"),
     TypeRule(1, "minor"),
     TypeRule(2, "minor"),
     TypeRule(3, "patch"),
     TypeRule(4, "patch"),
     TypeRule(5, "patch"),
     TypeRule(6, "patch"),
     TypeRule(7, "patch"),
     TypeRule(8, "patch"),
     TypeRule(9, "patch"),
     TypeRule(10, "patch"),
     TypeRule(11, "patch"),
     TypeRule(12, "patch") >>

BreakingLiteral ==
  <<"B","R","E","A","K","I","N","G"," ","C","H","A","N","G","E",":">>

\* new RegExp(`^${type}(?:\(.*\))?!:`): in the template literal \( is a plain
\* "(", so the pattern is ^type(?:(.*))?!: , the type, then any run of
\* characters of the same line, then "!:"
MatchesBreakingPrefix(commit, type) ==
  /\ StartsWith(commit, type)
  /\ \E k \in 0..(Len(commit) - Len(type)) :
       /\ \A q \in (Len(type) + 1)..(Len(type) + k) : commit[q] \notin LineTerminators
       /\ OccursAt(commit, <<"!", ":">>, Len(type) + k + 1)

\* a detection that only knows the footer literal and misses the "!" marker
isBreakingChange_LiteralOnly(commit) == Includes(commit, BreakingLiteral)

isBreakingChange(commit) ==
  \/ Includes(commit, BreakingLiteral)
  \/ \E t \in 1..Len(defaultCommitTypes) : MatchesBreakingPrefix(commit, defaultCommitTypes[t])

isRevertChange(commit) == StartsWith(commit, <<"r","e","v","e","r","t">>)

\* new RegExp(`^${type}(?:\(.*\))?!?:`), i.e. ^type(?:(.*))?!?:
MatchesConventionalPrefix(commit, type) ==
  /\ StartsWith(commit, type)
  /\ \E k \in 0..(Len(commit) - Len(type)) :
       /\ \A q \in (Len(type) + 1)..(Len(type) + k) : commit[q] \notin LineTerminators
       /\ \/ OccursAt(commit, <<":">>, Len(type) + k + 1)
          \/ OccursAt(commit, <<"!", ":">>, Len(type) + k + 1)

isConventionalCommit(commit) ==
  \E t \in 1..Len(defaultCommitTypes) : MatchesConventionalPrefix(commit, defaultCommitTypes[t])

\* the ends (index of ":") of the matches of /^(\w+)(\(.+\))?(!)?:/ whose
\* first group is the first w characters
CommitTypeMatchEnds(commitMessage, w) ==
  LET n == Len(commitMessage)
      \* positions right after the optional (\(.+\)) group
      afterScope ==
        {w + 1} \cup
        {e + 1 : e \in {e \in (w + 3)..n :
                          /\ commitMessage[w + 1] = "("
                          /\ commitMessage[e] = ")"
                          /\ \A q \in (w + 2)..(e - 1) :
                               commitMessage[q] \notin LineTerminators}}
      \* positions right after the optional (!) group
      afterBang ==
        afterScope \cup {p + 1 : p \in {p \in afterScope : p <= n /\ commitMessage[p] = "!"}}
  IN {p \in afterBang : p <= n /\ commitMessage[p] = ":"}

\* the lengths of a first group (\w+) with which the expression matches
CommitTypeLengths(commitMessage) ==
  {w \in 1..Len(commitMessage) :
     /\ \A q \in 1..w : commitMessage[q] \in WordChars
     /\ CommitTypeMatchEnds(commitMessage, w) # {}}

\* null is modelled by the empty string: both are falsy in `if (!commitType)`
getCommitType(commitMessage) ==
  LET ws == CommitTypeLengths(commitMessage)
  IN IF ws = {} THEN <<>>
     ELSE SeqRange(commitMessage, 1, CHOOSE w \in ws : \A v \in ws : v <= w)

RECURSIVE firstMatchingRule(_, _, _, _)
firstMatchingRule(changelogMessage, commitType, releaseRules, i) ==
  IF i > Len(releaseRules) THEN NoRelease
  ELSE LET rule == releaseRules[i]
       IN IF rule.breaking /\ isBreakingChange(changelogMessage) THEN rule.release
          ELSE IF rule.revert /\ isRevertChange(changelogMessage) THEN rule.release
          ELSE IF rule.type # NoType /\ rule.type = commitType THEN rule.release
          ELSE firstMatchingRule(changelogMessage, commitType, releaseRules, i + 1)

\* a classifier that consults the rules even when no type token is extracted
determineReleaseType_NoTokenCheck(changelogMessage, releaseRules) ==
  firstMatchingRule(changelogMessage, getCommitType(changelogMessage), releaseRules, 1)

determineReleaseType(changelogMessage, releaseRules) ==
  LET commitType == getCommitType(changelogMessage)
  IN IF commitType = <<>> THEN NoRelease
     ELSE firstMatchingRule(changelogMessage, commitType, releaseRules, 1)

(***************************************************************************)
(* Classifier: determineReleaseType applied to a message and a rule table  *)
(***************************************************************************)
\* longest rule table tried besides the default one
MaxRules == 3

RECURSIVE SeqsUpTo(_, _)
SeqsUpTo(S, n) ==
  IF n = 0 THEN {<<>>}
  ELSE LET shorter == SeqsUpTo(S, n - 1)
       IN shorter \cup {Append(q, x) : q \in {q \in shorter : Len(q) = n - 1}, x \in S}

RECURSIVE Concat(_)
Concat(parts) == IF parts = <<>> THEN <<>> ELSE Head(parts) \o Concat(Tail(parts))

MsgHeads ==
  { <<"f","e","a","t">>, <<"f","e","a","t","u","r","e">>, <<"f","i","x">>,
    <<"r","e","v","e","r","t">>, <<"w","i","p">>, <<>> }
MsgScopes == { <<>>, <<"(",")">>, <<"(","a",")">> }
MsgBangs == { <<>>, <<"!">> }
MsgColons == { <<>>, <<":">> }
MsgTails == { <<>>, <<" ","x">>, <<" ","x",NL>> \o BreakingLiteral \o <<" ","y">> }

ClassifyMessages ==
  {Concat(<<h, s, b, c, t>>) :
     h \in MsgHeads, s \in MsgScopes, b \in MsgBangs, c \in MsgColons, t \in MsgTails}

RulePool ==
  { Rule(TRUE, FALSE, NoType, "major"),
    Rule(FALSE, TRUE, NoType, "patch"),
    Rule(FALSE, FALSE, <<"f","e","a","t">>, "minor"),
    Rule(FALSE, FALSE, <<"r","e","v","e","r","t">>, "minor"),
    Rule(FALSE, FALSE, <<"f","i","x">>, NoRelease) }

RuleTables == SeqsUpTo(RulePool, MaxRules) \cup {defaultReleaseRules}

InitClassify ==
  /\ input \in [changelogMessage : ClassifyMessages, releaseRules : RuleTables]
  /\ output = Pending
  /\ pc = "call"
  /\ RunIdle

CallDetermineReleaseType ==
  /\ pc = "call"
  /\ output' = determineReleaseType(input.changelogMessage, input.releaseRules)
  /\ pc' = "return"
  /\ UNCHANGED <<input, runVars>>

SpecClassify == InitClassify /\ [][CallDetermineReleaseType]_vars

\* index of the first rule of the table satisfying P, 0 when there is none
FirstRule(rules, P(_)) ==
  IF \E i \in 1..Len(rules) : P(rules[i])
  THEN CHOOSE i \in 1..Len(rules) : P(rules[i]) /\ \A j \in 1..(i - 1) : ~P(rules[j])
  ELSE 0

IsBreakingRule(rule) == rule.breaking
IsRevertRule(rule) == rule.revert

\* the header of the message carries "!" right before its colon
HasBangBeforeColon(m) ==
  \E w \in CommitTypeLengths(m) :
    \E p \in CommitTypeMatchEnds(m, w) : p > 1 /\ m[p - 1] = "!"

\* a breaking conventional message with an extractable type, and a table in
\* which a breaking rule precedes the rule of that type
C1_Case ==
  LET m == input.changelogMessage
      rules == input.releaseRules
      T == getCommitType(m)
      IsTypeRule(rule) == rule.type # NoType /\ rule.type = T
      iB == FirstRule(rules, IsBreakingRule)
      iT == FirstRule(rules, IsTypeRule)
  IN /\ pc = "return"
     /\ T # <<>>
     /\ isConventionalCommit(m)
     /\ HasBangBeforeColon(m) \/ Includes(m, BreakingLiteral)
     /\ iB > 0 /\ iT > 0 /\ iB < iT

C1_BreakingRelease ==
  input.releaseRules[FirstRule(input.releaseRules, IsBreakingRule)].release

C1_RevertRuleFirst ==
  LET rules == input.releaseRules
      iR == FirstRule(rules, IsRevertRule)
  IN /\ isRevertChange(input.changelogMessage)
     /\ iR > 0 /\ iR < FirstRule(rules, IsBreakingRule)

\* C1 as stated: whenever a breaking rule precedes the rule of the message's
\* type, a breaking conventional message of that type gets the breaking
\* rule's release
C1_Original == C1_Case => output = C1_BreakingRelease

\* C1: whenever a breaking rule precedes the rule of the message's type, and
\* no revert rule precedes that breaking rule while the message starts with
\* "revert", a breaking conventional message of that type gets the breaking
\* rule's release; with the default table that release is major
C1_BreakingWins ==
  (C1_Case /\ ~C1_RevertRuleFirst) =>
     /\ output = C1_BreakingRelease
     /\ input.releaseRules = defaultReleaseRules => output = "major"

C1_Witness ==
  /\ C1_Case /\ ~C1_RevertRuleFirst
  /\ input.releaseRules = defaultReleaseRules
  /\ getCommitType(input.changelogMessage) = <<"f","e","a","t">>
  /\ HasBangBeforeColon(input.changelogMessage)
  /\ output = "major"

(***************************************************************************)
(* Grouper: associateCommitsToConventionalCommitMessages, one commit of    *)
(* the reduce at a time                                                    *)
(***************************************************************************)
\* longest commit sequence grouped
MaxCommits == 4

Commit(h, m) == [commitHash |-> h, commitMessage |-> m]
Unit(m, hs) == [changelogMessage |-> m, commitHashes |-> hs]

\* a reducer that joins a conventional commit to a non-conventional unit
\* without re-labelling the unit
associateStep_KeepLabel(acc, curr) ==
  IF Len(acc) = 0
  THEN << Unit(curr.commitMessage, <<curr.commitHash>>) >>
  ELSE LET last == acc[Len(acc)]
           init == SubSeq(acc, 1, Len(acc) - 1)
       IN IF /\ isConventionalCommit(curr.commitMessage)
             /\ isConventionalCommit(last.changelogMessage)
          THEN Append(acc, Unit(curr.commitMessage, <<curr.commitHash>>))
          ELSE Append(init, Unit(last.changelogMessage,
                                 Append(last.commitHashes, curr.commitHash)))

\* a reducer that opens a unit for every conventional commit
associateStep_AlwaysNewUnit(acc, curr) ==
  IF Len(acc) = 0
  THEN << Unit(curr.commitMessage, <<curr.commitHash>>) >>
  ELSE LET last == acc[Len(acc)]
           init == SubSeq(acc, 1, Len(acc) - 1)
       IN IF isConventionalCommit(curr.commitMessage)
          THEN Append(acc, Unit(curr.commitMessage, <<curr.commitHash>>))
          ELSE Append(init, Unit(last.changelogMessage,
                                 Append(last.commitHashes, curr.commitHash)))

\* a reducer that drops the hash of a commit that re-labels a unit
associateStep_DropHash(acc, curr) ==
  IF Len(acc) = 0
  THEN << Unit(curr.commitMessage, <<curr.commitHash>>) >>
  ELSE LET last == acc[Len(acc)]
           init == SubSeq(acc, 1, Len(acc) - 1)
       IN IF isConventionalCommit(curr.commitMessage)
          THEN IF isConventionalCommit(last.changelogMessage)
               THEN Append(acc, Unit(curr.commitMessage, <<curr.commitHash>>))
               ELSE Append(init, Unit(curr.commitMessage, last.commitHashes))
          ELSE Append(init, Unit(last.changelogMessage,
                                 Append(last.commitHashes, curr.commitHash)))

\* the callback of commits.reduce
associateStep(acc, curr) ==
  IF Len(acc) = 0
  THEN << Unit(curr.commitMessage, <<curr.commitHash>>) >>
  ELSE LET last == acc[Len(acc)]
           init == SubSeq(acc, 1, Len(acc) - 1)
       IN IF isConventionalCommit(curr.commitMessage)
          THEN IF isConventionalCommit(last.changelogMessage)
               THEN Append(acc, Unit(curr.commitMessage, <<curr.commitHash>>))
               ELSE Append(init, Unit(curr.commitMessage,
                                      Append(last.commitHashes, curr.commitHash)))
          ELSE Append(init, Unit(last.changelogMessage,
                                 Append(last.commitHashes, curr.commitHash)))

RECURSIVE reduceFrom(_, _, _)
reduceFrom(acc, commits, i) ==
  IF i > Len(commits) THEN acc
  ELSE reduceFrom(associateStep(acc, commits[i]), commits, i + 1)

associateCommitsToConventionalCommitMessages(commits) == reduceFrom(<<>>, commits, 1)

GroupMessages ==
  { <<"f","e","a","t",":"," ","x">>,
    <<"f","i","x","(","a",")","!",":"," ","y">>,
    <<"w","i","p">>,
    <<"M","e","r","g","e"," ","b">>,
    <<"w","i","p",NL,"f","i","x",":"," ","z">> }

\* the i-th commit of the range has hash i
CommitSequences ==
  {[i \in 1..Len(ms) |-> Commit(i, ms[i])] : ms \in SeqsUpTo(GroupMessages, MaxCommits)}

InitGroup ==
  /\ input \in [commits : CommitSequences]
  /\ output = [acc |-> <<>>, consumed |-> 0]
  /\ pc = "call"
  /\ RunIdle

ReduceStep ==
  /\ pc = "call"
  /\ output.consumed < Len(input.commits)
  /\ output' = [acc |-> associateStep(output.acc, input.commits[output.consumed + 1]),
                consumed |-> output.consumed + 1]
  /\ pc' = IF output.consumed + 1 = Len(input.commits) THEN "return" ELSE "call"
  /\ UNCHANGED <<input, runVars>>

SpecGroup == InitGroup /\ [][ReduceStep]_vars

GroupDone == output.consumed = Len(input.commits)

RECURSIVE ConcatHashes(_)
ConcatHashes(us) ==
  IF us = <<>> THEN <<>>
  ELSE Head(us).commitHashes \o ConcatHashes(Tail(us))

\* C4: each commit after the first either opens a new unit (conventional
\* after a conventional unit), re-labels the last unit and joins it
\* (conventional after a non-conventional unit), or joins the last unit
\* leaving its message alone (non-conventional); earlier units never change
C4_FoldStep ==
  [][ (output.consumed >= 1 /\ output'.consumed = output.consumed + 1) =>
        LET acc == output.acc
            new == output'.acc
            n == Len(acc)
            curr == input.commits[output.consumed + 1]
            last == acc[n]
        IN IF isConventionalCommit(curr.commitMessage)
           THEN IF isConventionalCommit(last.changelogMessage)
                THEN /\ Len(new) = n + 1
                     /\ \A k \in 1..n : new[k] = acc[k]
                     /\ new[n + 1].changelogMessage = curr.commitMessage
                     /\ new[n + 1].commitHashes = <<curr.commitHash>>
                ELSE /\ Len(new) = n
                     /\ \A k \in 1..(n - 1) : new[k] = acc[k]
                     /\ new[n].changelogMessage = curr.commitMessage
                     /\ new[n].commitHashes = Append(last.commitHashes, curr.commitHash)
           ELSE /\ Len(new) = n
                /\ \A k \in 1..(n - 1) : new[k] = acc[k]
                /\ new[n].changelogMessage = last.changelogMessage
                /\ new[n].commitHashes = Append(last.commitHashes, curr.commitHash)
    ]_vars

\* a conventional commit has just re-labelled the non-conventional unit that
\* held all the commits before it
C4_Witness ==
  /\ output.consumed >= 3
  /\ Len(output.acc) = 1
  /\ ~isConventionalCommit(input.commits[1].commitMessage)
  /\ isConventionalCommit(input.commits[output.consumed].commitMessage)
  /\ output.acc[1].changelogMessage = input.commits[output.consumed].commitMessage
  /\ Len(output.acc[1].commitHashes) = output.consumed

\* C8: the units are a partition of the commits into contiguous runs: no
\* unit is empty and the units' hashes, concatenated, are the input hashes
C8_Partition ==
  /\ \A k \in 1..Len(output.acc) : Len(output.acc[k].commitHashes) >= 1
  /\ ConcatHashes(output.acc) =
       [i \in 1..output.consumed |-> input.commits[i].commitHash]
  /\ GroupDone => output.acc = associateCommitsToConventionalCommitMessages(input.commits)

C8_Witness ==
  /\ GroupDone
  /\ Len(input.commits) = MaxCommits
  /\ Len(output.acc) = 2
  /\ Len(output.acc[1].commitHashes) >= 2
  /\ Len(output.acc[2].commitHashes) >= 2

\* C9 as stated: the result has a first unit and its message is the first
\* commit's message
C9_Original ==
  (GroupDone /\ Len(input.commits) >= 1) =>
     /\ Len(output.acc) >= 1
     /\ output.acc[1].changelogMessage = input.commits[1].commitMessage

\* the first conventional commit of the sequence, 0 when there is none
FirstConventional(commits) ==
  IF \E i \in 1..Len(commits) : isConventionalCommit(commits[i].commitMessage)
  THEN CHOOSE i \in 1..Len(commits) :
         /\ isConventionalCommit(commits[i].commitMessage)
         /\ \A j \in 1..(i - 1) : ~isConventionalCommit(commits[j].commitMessage)
  ELSE 0

\* C9: for a non-empty commit sequence the result has a first unit, which
\* starts at the first commit; its message is the first commit's message,
\* unless that commit is not conventional and a conventional one follows:
\* then it is the message of the first conventional commit
C9_FirstUnit ==
  (GroupDone /\ Len(input.commits) >= 1) =>
     LET fc == FirstConventional(input.commits)
     IN /\ Len(output.acc) >= 1
        /\ output.acc[1].commitHashes[1] = input.commits[1].commitHash
        /\ output.acc[1].changelogMessage =
             input.commits[IF fc = 0 THEN 1 ELSE fc].commitMessage

C9_Witness ==
  /\ GroupDone
  /\ Len(input.commits) >= 2
  /\ FirstConventional(input.commits) = 0
  /\ Len(output.acc) = 1
  /\ output.acc[1].changelogMessage = input.commits[1].commitMessage

(***************************************************************************)
(* Package impact resolver: getFilesChangedSince, getRepoRoot, filterFiles *)
(* and getChangedPackages                                                  *)
(***************************************************************************)
WhiteSpace == {" ", "\t", NL, CR}

\* String.prototype.trim
RECURSIVE TrimStart(_)
TrimStart(s) == IF s # <<>> /\ Head(s) \in WhiteSpace THEN TrimStart(Tail(s)) ELSE s

RECURSIVE TrimEnd(_)
TrimEnd(s) ==
  IF s # <<>> /\ s[Len(s)] \in WhiteSpace THEN TrimEnd(SubSeq(s, 1, Len(s) - 1)) ELSE s

Trim(s) == TrimEnd(TrimStart(s))

\* String.prototype.split with a one-character separator
RECURSIVE Split(_, _)
Split(s, sep) ==
  IF \E i \in 1..Len(s) : s[i] = sep
  THEN LET i == CHOOSE i \in 1..Len(s) : s[i] = sep /\ \A j \in 1..(i - 1) : s[j] # sep
       IN <<SubSeq(s, 1, i - 1)>> \o Split(SubSeq(s, i + 1, Len(s)), sep)
  ELSE <<s>>

\* String.prototype.replace(/\n|\r/g, '')
RemoveLineBreaks(s) == SelectSeq(s, LAMBDA c : c \notin {NL, CR})

\* String.prototype.replace(pattern, '') with a string pattern: the first
\* occurrence only, wherever it is
RemoveFirst(s, sub) ==
  IF Includes(s, sub)
  THEN LET i == CHOOSE i \in 1..(Len(s) + 1) :
                  OccursAt(s, sub, i) /\ \A j \in 1..(i - 1) : ~OccursAt(s, sub, j)
       IN SubSeq(s, 1, i - 1) \o SubSeq(s, i + Len(sub), Len(s))
  ELSE s

\* String.prototype.match(pattern) is truthy: the pattern, compiled to a
\* regular expression, matches somewhere in the string.  Patterns are made
\* of literal characters and of ".", which matches any character of a line.
Matches(s, pattern) ==
  \E i \in 1..(Len(s) - Len(pattern) + 1) :
    \A j \in 1..Len(pattern) :
      \/ pattern[j] = s[i + j - 1]
      \/ pattern[j] = "." /\ s[i + j - 1] \notin LineTerminators

\* the text printed by `git diff --name-only`, turned into a list of paths
getFilesChangedSince(diffOutput) == Split(Trim(diffOutput), NL)

\* the text printed by `git rev-parse --show-toplevel`, turned into a path
getRepoRoot(revParseOutput) == RemoveLineBreaks(Trim(revParseOutput))

filterFiles(files, ignoredPatterns) ==
  SelectSeq(files, LAMBDA file :
    \A k \in 1..Len(ignoredPatterns) : ~Matches(file, ignoredPatterns[k]))

getChangedPackages(filesChanged, packages, revParseOutput) ==
  LET repoRoot == getRepoRoot(revParseOutput)
  IN SelectSeq(packages, LAMBDA pkg :
       \E f \in 1..Len(filesChanged) :
         Matches(filesChanged[f], RemoveFirst(pkg.dir, repoRoot \o <<"/">>)))

\* most paths in one diff, most ignore patterns in one run
MaxFiles == 2
MaxPatterns == 2

RevParseOutput == <<"/","r",NL>>

Package(d, n) == [dir |-> d, name |-> n]
PkgA == Package(<<"/","r","/","p","/","a">>, "a")
PkgAB == Package(<<"/","r","/","p","/","a","b">>, "ab")
PkgB == Package(<<"p","/","b">>, "b")

\* the package lists: the sub-lists of <<PkgA, PkgAB, PkgB>>
PackageLists ==
  { SelectSeq(<<PkgA, PkgAB, PkgB>>, LAMBDA pkg : pkg \in S) : S \in SUBSET {PkgA, PkgAB, PkgB} }

FilePool ==
  { <<"p","/","a","/","f">>,
    <<"p","/","a","b","/","f">>,
    <<"p","/","b","/","g">>,
    <<"x","/","p","/","a","/","g">>,
    <<"d">> }

PatternPool == { <<"a","/","f">>, <<"b","/",".">>, <<"g">> }

\* the lines of a diff: each path followed by a newline
RECURSIVE Lines(_)
Lines(paths) == IF paths = <<>> THEN <<>> ELSE Head(paths) \o <<NL>> \o Lines(Tail(paths))

NoRepeat(q) == \A i, j \in 1..Len(q) : i # j => q[i] # q[j]

DiffOutputs == {Lines(q) : q \in {q \in SeqsUpTo(FilePool, MaxFiles) : NoRepeat(q)}}

InitImpact ==
  /\ input \in [diffOutput : DiffOutputs,
                ignoredFiles : SeqsUpTo(PatternPool, MaxPatterns),
                packages : PackageLists]
  /\ output = [filesChanged |-> <<>>, packagesChanged |-> <<>>]
  /\ pc = "call"
  /\ RunIdle

ResolveImpact ==
  /\ pc = "call"
  /\ pc' = "return"
  /\ LET files == filterFiles(getFilesChangedSince(input.diffOutput), input.ignoredFiles)
     IN output' = [filesChanged |-> files,
                   packagesChanged |->
                     getChangedPackages(files, input.packages, RevParseOutput)]
  /\ UNCHANGED <<input, runVars>>

SpecImpact == InitImpact /\ [][ResolveImpact]_vars

\* the package's directory relative to the repository root
RelativeDir(pkg) == RemoveFirst(pkg.dir, getRepoRoot(RevParseOutput) \o <<"/">>)

\* the file lies in the directory: the directory and "/" are a prefix of its path
IsUnder(file, dir) == StartsWith(file, dir \o <<"/">>)

IsIgnored(file) == \E k \in 1..Len(input.ignoredFiles) : Matches(file, input.ignoredFiles[k])

\* C7: getChangedPackages returns exactly the packages, in list order, whose
\* directory is a prefix of the path of some changed file
C7_PrefixOnly ==
  pc = "return" =>
    output.packagesChanged =
      SelectSeq(input.packages, LAMBDA pkg :
        \E f \in 1..Len(output.filesChanged) :
          IsUnder(output.filesChanged[f], RelativeDir(pkg)))

\* C6: filterFiles removes exactly the files matching at least one ignore
\* pattern, and a package that has changed files, all of them matching an
\* ignore pattern, is not reported changed
C6_IgnoredNeverChanged ==
  pc = "return" =>
    LET files == getFilesChangedSince(input.diffOutput)
    IN /\ output.filesChanged = SelectSeq(files, LAMBDA file : ~IsIgnored(file))
       /\ \A p \in 1..Len(input.packages) :
            (/\ \E f \in 1..Len(files) : IsUnder(files[f], RelativeDir(input.packages[p]))
             /\ \A f \in 1..Len(files) :
                  IsUnder(files[f], RelativeDir(input.packages[p])) => IsIgnored(files[f]))
            => \A c \in 1..Len(output.packagesChanged) :
                 output.packagesChanged[c] # input.packages[p]

(***************************************************************************)
(* Changeset assembler and deduplication                                   *)
(***************************************************************************)
Release(n, t) == [name |-> n, type |-> t]

\* an assembler that keeps the units no rule classifies
changesetOfUnit_KeepUnclassified(entry, files, packages, revParseOutput, releaseRules) ==
  LET packagesChanged == getChangedPackages(files, packages, revParseOutput)
      releaseType == determineReleaseType(entry.changelogMessage, releaseRules)
  IN IF Len(packagesChanged) = 0 THEN <<>>
     ELSE << [releases |-> [k \in 1..Len(packagesChanged) |->
                              Release(packagesChanged[k].name, releaseType)],
              summary |-> entry.changelogMessage,
              packagesChanged |-> packagesChanged] >>

\* the changeset of one unit, <<>> when the unit is dropped (null)
changesetOfUnit(entry, files, packages, revParseOutput, releaseRules) ==
  LET packagesChanged == getChangedPackages(files, packages, revParseOutput)
      releaseType == determineReleaseType(entry.changelogMessage, releaseRules)
  IN IF Len(packagesChanged) = 0 THEN <<>>
     ELSE IF releaseType = NoRelease THEN <<>>
     ELSE << [releases |-> [k \in 1..Len(packagesChanged) |->
                              Release(packagesChanged[k].name, releaseType)],
              summary |-> entry.changelogMessage,
              packagesChanged |-> packagesChanged] >>

\* String.prototype.replace(/\n$/, '')
StripFinalNewline(s) ==
  IF s # <<>> /\ s[Len(s)] = NL THEN SubSeq(s, 1, Len(s) - 1) ELSE s

compareChangeSet(a, b) ==
  /\ StripFinalNewline(a.summary) = b.summary
  /\ a.releases = b.releases

difference(a, b) ==
  SelectSeq(a, LAMBDA changeA : ~\E k \in 1..Len(b) : compareChangeSet(changeA, b[k]))

\* writeChangeset stores the releases and the summary of a changeset
writeChangeset(changeset) == [summary |-> changeset.summary, releases |-> changeset.releases]

\* readChangeset returns the stored changesets; the reader either hands the
\* summary back as stored or trims it, and the run does not control which
readChangeset(stored, trims) ==
  [k \in 1..Len(stored) |->
     [summary |-> IF trims THEN Trim(stored[k].summary) ELSE stored[k].summary,
      releases |-> stored[k].releases]]

(***************************************************************************)
(* The run: conventionalCommitChangeset, one external command at a time    *)
(***************************************************************************)
\* most commits in the range, most invocations of the tool in a row
MaxRunCommits == 2
MaxRuns == 2

baseBranch == <<"m">>
OriginRef == <<"o","/">> \o baseBranch
DescribeOutput == <<"v","1",NL>>
RootOutput == <<"0",NL>>

HashChars == <<"1","2","3","4","5","6","7","8","9">>
HashOf(i) == <<HashChars[i]>>

RunMessages ==
  { <<"f","i","x",":"," ","x",NL>>,
    <<"f","e","a","t","!",":"," ","y",NL,NL>>,
    <<"w","i","p",NL>> }

RunFiles == { <<"p","/","a","/","f">>, <<"p","/","b","/","g">> }

RunPackages == <<PkgA, PkgB>>

RepoCommits ==
  {[i \in 1..Len(q) |-> [commitHash |-> HashOf(i), commitMessage |-> q[i][1], file |-> q[i][2]]] :
     q \in SeqsUpTo(RunMessages \X RunFiles, MaxRunCommits)}

Stored(summary, releases) == [summary |-> summary, releases |-> releases]

Baselines ==
  { <<>>,
    << Stored(<<"f","i","x",":"," ","x">>, <<Release("a", "patch")>>) >>,
    << Stored(<<"f","e","a","t","!",":"," ","y">>, <<Release("b", "major")>>),
       Stored(<<"f","i","x",":"," ","x">>, <<Release("a", "patch"), Release("b", "patch")>>) >> }

\* the commits the range since the reference holds, oldest first: the root
\* commit and the remote branch lie before the first commit, the tag on it
CommitsAfter(ref) ==
  IF ref \in {Trim(RootOutput), OriginRef} THEN input.commits
  ELSE IF ref = Trim(DescribeOutput) THEN Tail(input.commits)
  ELSE <<>>

Reverse(q) == [i \in 1..Len(q) |-> q[Len(q) + 1 - i]]

\* what `git rev-list --ancestry-path ref...HEAD` prints: newest first
RevListOutput(ref) ==
  LET cs == IF input.commits = <<>> THEN <<>> ELSE CommitsAfter(ref)
  IN Lines(Reverse([i \in 1..Len(cs) |-> cs[i].commitHash]))

CommitOfHash(h) == CHOOSE i \in 1..Len(input.commits) : input.commits[i].commitHash = h

\* what `git log -n 1 --pretty=format:%B hash` prints
LogOutput(h) == input.commits[CommitOfHash(h)].commitMessage

RECURSIVE Dedup(_)
Dedup(q) ==
  IF q = <<>> THEN <<>>
  ELSE LET init == Dedup(SubSeq(q, 1, Len(q) - 1))
           x == q[Len(q)]
       IN IF \E i \in 1..Len(init) : init[i] = x THEN init ELSE Append(init, x)

\* what `git diff --name-only from~1...to` prints
DiffOutput(from, to) ==
  LET a == CommitOfHash(from)
      b == CommitOfHash(to)
  IN Lines(Dedup([i \in 1..(b - a + 1) |-> input.commits[a + i - 1].file]))

InitRun ==
  /\ input \in [commits : RepoCommits,
                branchOutput : {baseBranch \o <<NL>>, <<"t",NL>>},
                tagged : BOOLEAN,
                ignoredFiles : {<<>>, << <<"g">> >>},
                readerTrims : BOOLEAN,
                baseline : Baselines]
  /\ output = Pending
  /\ pc = "config"
  /\ run = 1
  /\ lastError = ""
  /\ sinceRef = <<>>
  /\ commitsSinceBase = <<>>
  /\ commitsWithMessages = <<>>
  /\ units = <<>>
  /\ cursor = 0
  /\ filesOfUnit = <<>>
  /\ changesets = <<>>
  /\ currentChangesets = <<>>
  /\ newChangesets = <<>>
  /\ written = <<>>
  /\ store = input.baseline

\* JSON.parse(fs.readFileSync(...)) and getPackagesSync
ReadConfig ==
  /\ pc = "config"
  /\ pc' = "fetch"
  /\ lastError' = ""
  /\ UNCHANGED <<input, output, run, sinceRef, commitsSinceBase, commitsWithMessages, units,
                 cursor, filesOfUnit, changesets, currentChangesets, newChangesets,
                 written, store>>

gitFetch ==
  /\ pc = "fetch"
  /\ pc' = "branch"
  /\ UNCHANGED <<input, output, runVars>>

getCurrentBranch ==
  /\ pc = "branch"
  /\ sinceRef' = OriginRef
  /\ pc' = IF Trim(input.branchOutput) = baseBranch THEN "describe" ELSE "revlist"
  /\ UNCHANGED <<input, output, run, lastError, commitsSinceBase, commitsWithMessages, units,
                 cursor, filesOfUnit, changesets, currentChangesets, newChangesets,
                 written, store>>

\* git describe --tags --abbrev=0 finds a tag
DescribeTags ==
  /\ pc = "describe"
  /\ input.tagged
  /\ sinceRef' = DescribeOutput
  /\ pc' = "revlist"
  /\ UNCHANGED <<input, output, run, lastError, commitsSinceBase, commitsWithMessages, units,
                 cursor, filesOfUnit, changesets, currentChangesets, newChangesets,
                 written, store>>

\* a tag resolution whose failure is not caught
DescribeFails_Uncaught ==
  /\ pc = "describe"
  /\ ~input.tagged
  /\ lastError' = "describe"
  /\ pc' = "aborted"
  /\ UNCHANGED <<input, output, run, sinceRef, commitsSinceBase, commitsWithMessages, units,
                 cursor, filesOfUnit, changesets, currentChangesets, newChangesets,
                 written, store>>

\* git describe fails; the catch block goes on to the root commit
DescribeFails ==
  /\ pc = "describe"
  /\ ~input.tagged
  /\ lastError' = "describe"
  /\ pc' = "root"
  /\ UNCHANGED <<input, output, run, sinceRef, commitsSinceBase, commitsWithMessages, units,
                 cursor, filesOfUnit, changesets, currentChangesets, newChangesets,
                 written, store>>

\* git rev-list --max-parents=0 HEAD
RevListRoot ==
  /\ pc = "root"
  /\ sinceRef' = RootOutput
  /\ lastError' = ""
  /\ pc' = "revlist"
  /\ UNCHANGED <<input, output, run, commitsSinceBase, commitsWithMessages, units,
                 cursor, filesOfUnit, changesets, currentChangesets, newChangesets,
                 written, store>>

\* sinceRef.trim(), git rev-list --ancestry-path, split, filter(Boolean), reverse
RevList ==
  /\ pc = "revlist"
  /\ sinceRef' = Trim(sinceRef)
  /\ commitsSinceBase' =
       Reverse(SelectSeq(Split(RevListOutput(Trim(sinceRef)), NL), LAMBDA l : l # <<>>))
  /\ cursor' = 1
  /\ pc' = IF commitsSinceBase' = <<>> THEN "associate" ELSE "log"
  /\ UNCHANGED <<input, output, run, lastError, commitsWithMessages, units,
                 filesOfUnit, changesets, currentChangesets, newChangesets, written, store>>

\* commitsSinceBase.map: git log for one commit
GitLog ==
  /\ pc = "log"
  /\ commitsWithMessages' =
       Append(commitsWithMessages,
              Commit(commitsSinceBase[cursor], LogOutput(commitsSinceBase[cursor])))
  /\ cursor' = cursor + 1
  /\ pc' = IF cursor = Len(commitsSinceBase) THEN "associate" ELSE "log"
  /\ UNCHANGED <<input, output, run, lastError, sinceRef, commitsSinceBase, units,
                 filesOfUnit, changesets, currentChangesets, newChangesets, written, store>>

Associate ==
  /\ pc = "associate"
  /\ units' = associateCommitsToConventionalCommitMessages(commitsWithMessages)
  /\ cursor' = 1
  /\ pc' = IF units' = <<>> THEN "read" ELSE "diff"
  /\ UNCHANGED <<input, output, run, lastError, sinceRef, commitsSinceBase,
                 commitsWithMessages, filesOfUnit, changesets, currentChangesets,
                 newChangesets, written, store>>

\* git diff for one unit, then filterFiles
GitDiff ==
  /\ pc = "diff"
  /\ LET entry == units[cursor]
     IN filesOfUnit' =
          filterFiles(getFilesChangedSince(
                        DiffOutput(entry.commitHashes[1],
                                   entry.commitHashes[Len(entry.commitHashes)])),
                      input.ignoredFiles)
  /\ pc' = "revparse"
  /\ UNCHANGED <<input, output, run, lastError, sinceRef, commitsSinceBase,
                 commitsWithMessages, units, cursor, changesets, currentChangesets,
                 newChangesets, written, store>>

\* git rev-parse --show-toplevel for one unit, then the rest of the map callback
GitRevParse ==
  /\ pc = "revparse"
  /\ changesets' =
       changesets \o changesetOfUnit(units[cursor], filesOfUnit, RunPackages,
                                     RevParseOutput, defaultReleaseRules)
  /\ filesOfUnit' = <<>>
  /\ cursor' = cursor + 1
  /\ pc' = IF cursor = Len(units) THEN "read" ELSE "diff"
  /\ UNCHANGED <<input, output, run, lastError, sinceRef, commitsSinceBase,
                 commitsWithMessages, units, currentChangesets, newChangesets,
                 written, store>>

\* readChangeset, then the choice of the new changesets
ReadChangesets ==
  /\ pc = "read"
  /\ currentChangesets' = readChangeset(store, input.readerTrims)
  /\ newChangesets' =
       IF Len(currentChangesets') = 0 THEN changesets
       ELSE difference(changesets, currentChangesets')
  /\ cursor' = 1
  /\ pc' = IF newChangesets' = <<>> THEN "done" ELSE "write"
  /\ UNCHANGED <<input, output, run, lastError, sinceRef, commitsSinceBase,
                 commitsWithMessages, units, filesOfUnit, changesets, written, store>>

\* newChangesets.forEach: one writeChangeset
WriteChangeset ==
  /\ pc = "write"
  /\ store' = Append(store, writeChangeset(newChangesets[cursor]))
  /\ written' = Append(written, newChangesets[cursor])
  /\ cursor' = cursor + 1
  /\ pc' = IF cursor = Len(newChangesets) THEN "done" ELSE "write"
  /\ UNCHANGED <<input, output, run, lastError, sinceRef, commitsSinceBase,
                 commitsWithMessages, units, filesOfUnit, changesets, currentChangesets,
                 newChangesets>>

\* the steps whose failure is not caught
FatalSteps == {"config", "fetch", "branch", "root", "revlist", "log", "diff", "revparse", "read"}

\* an external command throws and nothing catches it: the process ends
CommandFails ==
  /\ pc \in FatalSteps
  /\ lastError' = pc
  /\ pc' = "aborted"
  /\ UNCHANGED <<input, output, run, sinceRef, commitsSinceBase, commitsWithMessages, units,
                 cursor, filesOfUnit, changesets, currentChangesets, newChangesets,
                 written, store>>

\* the tool is invoked again on the same repository
NextRun ==
  /\ pc = "done"
  /\ run < MaxRuns
  /\ run' = run + 1
  /\ pc' = "config"
  /\ lastError' = ""
  /\ sinceRef' = <<>>
  /\ commitsSinceBase' = <<>>
  /\ commitsWithMessages' = <<>>
  /\ units' = <<>>
  /\ cursor' = 0
  /\ filesOfUnit' = <<>>
  /\ changesets' = <<>>
  /\ currentChangesets' = <<>>
  /\ newChangesets' = <<>>
  /\ written' = <<>>
  /\ UNCHANGED <<input, output, store>>

Next ==
  \/ ReadConfig
  \/ gitFetch
  \/ getCurrentBranch
  \/ DescribeTags
  \/ DescribeFails
  \/ RevListRoot
  \/ RevList
  \/ GitLog
  \/ Associate
  \/ GitDiff
  \/ GitRevParse
  \/ ReadChangesets
  \/ WriteChangeset
  \/ CommandFails
  \/ NextRun

Spec == InitRun /\ [][Next]_vars

\* the packages a unit impacts and the release type its message is given
ImpactOf(entry) ==
  getChangedPackages(
    filterFiles(getFilesChangedSince(DiffOutput(entry.commitHashes[1],
                                                entry.commitHashes[Len(entry.commitHashes)])),
                input.ignoredFiles),
    RunPackages, RevParseOutput)

ClassOf(entry) == determineReleaseType(entry.changelogMessage, defaultReleaseRules)

\* the units, by index and in order, the claim has a changeset emitted for
EmittedUnits ==
  SelectSeq([i \in 1..Len(units) |-> i],
            LAMBDA i : Len(ImpactOf(units[i])) > 0 /\ ClassOf(units[i]) # NoRelease)

Assembled == pc \in {"read", "write", "done"}

\* C3: a unit gets a changeset exactly when it impacts a package and is
\* classified; the changesets come in the order of their units, each with one
\* release per impacted package in package order, all of the unit's release
\* type, with the unit's message as summary and the impacted packages
C3_Assembly ==
  Assembled =>
    /\ Len(changesets) = Len(EmittedUnits)
    /\ \A j \in 1..Len(changesets) :
         LET entry == units[EmittedUnits[j]]
             impact == ImpactOf(entry)
         IN /\ changesets[j].summary = entry.changelogMessage
            /\ changesets[j].packagesChanged = impact
            /\ Len(changesets[j].releases) = Len(impact)
            /\ \A k \in 1..Len(impact) :
                 /\ changesets[j].releases[k].name = impact[k].name
                 /\ changesets[j].releases[k].type = ClassOf(entry)
                 /\ changesets[j].releases[k].type \in {"major", "minor", "patch"}

\* a unit whose only changed file is ignored was dropped and the unit after
\* it, which impacts a package and is classified, was emitted
C3_Witness ==
  /\ Assembled
  /\ Len(units) = 2
  /\ Len(changesets) = 1
  /\ changesets[1].summary = units[2].changelogMessage
  /\ Len(ImpactOf(units[1])) = 0
  /\ ClassOf(units[1]) # NoRelease
  /\ Len(changesets[1].releases) = 1

\* C2: a run that follows a completed run over the same commit range, against
\* the changesets that run left persisted, writes no changeset
C2_SecondRunWritesNothing ==
  (pc = "done" /\ run >= 2) => written = <<>>

\* the equality of the claim: summaries equal once a final newline is
\* stripped from each, releases equal
EqualChangesets(a, b) ==
  /\ StripFinalNewline(a.summary) = StripFinalNewline(b.summary)
  /\ a.releases = b.releases

\* C5: the run writes exactly the candidates, in order, that have no equal
\* persisted changeset; with nothing persisted it writes every candidate
C5_WritesTheNovel ==
  pc = "done" =>
    /\ written =
         SelectSeq(changesets, LAMBDA c :
           ~\E k \in 1..Len(currentChangesets) : EqualChangesets(c, currentChangesets[k]))
    /\ currentChangesets = <<>> => written = changesets

\* C10: a failed tag resolution is followed by the root commit resolution and
\* makes the root commit the reference; any other failed command aborts the
\* run; no changeset is written before every command and every
\* classification is over, so an aborted run has written nothing
C10_Failures ==
  /\ [](pc = "aborted" => (written = <<>> /\ lastError \in FatalSteps))
  /\ [](written # <<>> => pc \in {"write", "done"})
  /\ []((/\ Trim(input.branchOutput) = baseBranch /\ ~input.tagged
         /\ pc \in {"log", "associate", "diff", "revparse", "read", "write", "done"})
        => (/\ sinceRef = Trim(RootOutput)
            /\ commitsSinceBase = [i \in 1..Len(input.commits) |-> input.commits[i].commitHash]))
  /\ [][(lastError' = "describe" /\ pc = "describe") => pc' = "root"]_vars
  /\ [][(lastError' # lastError /\ lastError' \notin {"", "describe"}) => pc' = "aborted"]_vars
  /\ [][store' # store => (pc = "write" /\ pc' # "aborted")]_vars

\* the tag resolution failed, the root commit became the reference, a
\* changeset was assembled, and then a command failed
C10_Witness ==
  /\ pc = "aborted"
  /\ lastError = "revparse"
  /\ sinceRef = Trim(RootOutput)
  /\ Trim(input.branchOutput) = baseBranch
  /\ ~input.tagged
  /\ changesets # <<>>
  /\ written = <<>>
  /\ store = input.baseline

(***************************************************************************)
(* Classifier: the order of the rules, and its agreement with the grouper  *)
(***************************************************************************)
\* the rule applies to the message of the call: it is a breaking rule and the
\* message is breaking, or a revert rule and the message starts with
\* "revert", or its type is the extracted token
RuleApplies(rule) ==
  LET m == input.changelogMessage
  IN \/ rule.breaking /\ isBreakingChange(m)
     \/ rule.revert /\ isRevertChange(m)
     \/ rule.type # NoType /\ rule.type = getCommitType(m)

\* C11: without an extractable type token the result is no release, whatever
\* the message contains and the table holds; otherwise it is the release of
\* the first rule, in table order, that applies, later rules never being
\* consulted; and no release when no rule applies
C11_FirstRuleWins ==
  pc = "return" =>
    LET rules == input.releaseRules
        first == FirstRule(rules, RuleApplies)
    IN IF getCommitType(input.changelogMessage) = <<>> THEN output = NoRelease
       ELSE IF first = 0 THEN output = NoRelease
       ELSE output = rules[first].release

\* the first rule that applies releases nothing, a later rule that applies
\* would have released something, and the result is no release
C11_Witness ==
  /\ pc = "return"
  /\ getCommitType(input.changelogMessage) # <<>>
  /\ LET rules == input.releaseRules
         first == FirstRule(rules, RuleApplies)
     IN /\ first > 0
        /\ rules[first].release = NoRelease
        /\ \E j \in (first + 1)..Len(rules) :
             RuleApplies(rules[j]) /\ rules[j].release # NoRelease
  /\ output = NoRelease

\* C12: every message isConventionalCommit accepts has an extractable type
\* token and gets a release type from the default rule table
C12_GrouperClassifierAgree ==
  (/\ pc = "return"
   /\ input.releaseRules = defaultReleaseRules
   /\ isConventionalCommit(input.changelogMessage))
  => (/\ getCommitType(input.changelogMessage) # <<>>
      /\ output # NoRelease)

====
